---- MODULE Spec2Model ----
(***************************************************************************)
(* The GitHub notifications block of i3status-rust (src/blocks/github.rs): *)
(* the Link-header parser, the paginated Notifications iterator, the       *)
(* reason-count fold of Github::update, and the update cycle itself.       *)
(*                                                                         *)
(* Strings that the code inspects character by character (header lines,    *)
(* URLs, relation names) are sequences of one-character strings.  Strings  *)
(* the code only compares or uses as keys (reason codes, widget text) are  *)
(* TLA+ strings.                                                           *)
(***************************************************************************)
EXTENDS Integers, Sequences, FiniteSets, TLC

VARIABLES
    \* struct Github
    text,                  \* TextWidget text
    total_notifications,   \* u64
    hide_if_total_is_zero, \* bool (configuration)
    format,                \* FormatTemplate (configuration)
    \* Github::update in progress
    pc,                    \* "idle" | "folding" | "error" (update() returned Err)
                           \* | "parsed" (parse_links_header returned)
    acc,                   \* the try_fold accumulator
    values,                \* the mapping handed to format.render
    ret,                   \* what update() returned last
    \* struct Notifications
    notifications,         \* the buffered records of the current page
    next_page_url,         \* the cursor, empty when there is no next page
    item,                  \* what the last call of next() returned
    \* the upstream server and the history of one walk
    requests,              \* URLs requested in this walk, in order
    served,                \* records decoded from the pages of this walk, per reason
    folded,                \* records handed to the fold closure in this cycle
    total_before,          \* total_notifications when the cycle started
    chain,                 \* the "next" URL the server named in each response
                           \* of this walk, empty when it named none
    \* parse_links_header on its own
    entries,               \* the link entries the header was written from
    raw_links,             \* the raw header line
    links                  \* the mapping parse_links_header returned

githubVars == <<text, total_notifications, hide_if_total_is_zero, format>>
updateVars == <<pc, acc, values, ret>>
iterVars == <<notifications, next_page_url, item>>
walkVars == <<requests, served, folded, total_before, chain>>
parseVars == <<entries, raw_links, links>>
vars == <<githubVars, updateVars, iterVars, walkVars, parseVars>>

----------------------------------------------------------------------------
(* Characters and string constants *)

\* \s of the regex crate: the characters with the Unicode property
\* White_Space.  U+0009 to U+000D, U+0020, U+0085 and U+00A0 are written as
\* themselves; those above U+00FF, which a string of this module cannot
\* hold, are written as the name of their code point and stand for one
\* character each.
Space == {"\t", "\n", "", "\f", "\r", " ", "", " ",
          "U+1680", "U+2000", "U+2001", "U+2002", "U+2003", "U+2004",
          "U+2005", "U+2006", "U+2007", "U+2008", "U+2009", "U+200A",
          "U+2028", "U+2029", "U+202F", "U+205F", "U+3000"}

WordChars == {"a", "b", "c", "d", "e", "f", "g", "h", "i", "j", "k", "l", "m",
              "n", "o", "p", "q", "r", "s", "t", "u", "v", "w", "x", "y", "z",
              "A", "B", "C", "D", "E", "F", "G", "H", "I", "J", "K", "L", "M",
              "N", "O", "P", "Q", "R", "S", "T", "U", "V", "W", "X", "Y", "Z",
              "0", "1", "2", "3", "4", "5", "6", "7", "8", "9", "_"}

EmptyString == << >>

LinkName == <<"L", "i", "n", "k", ":">>
Http == <<"h", "t", "t", "p">>
SchemeSep == <<":", "/", "/">>
RelAttr == <<";", " ", "r", "e", "l", "=", "\"">>
RelNext == <<"n", "e", "x", "t">>
RelPrev == <<"p", "r", "e", "v">>
RelLast == <<"l", "a", "s", "t">>
RelFirst == <<"f", "i", "r", "s", "t">>

\* s has the literal lit at position i
LitAt(s, i, lit) ==
    /\ i >= 1
    /\ i + Len(lit) - 1 <= Len(s)
    /\ \A k \in 1..Len(lit) : s[i + k - 1] = lit[k]

starts_with(s, prefix) == LitAt(s, 1, prefix)

----------------------------------------------------------------------------
(* LINKS_REGEX:                                                            *)
(*   (<(?P<url>http(s)?://[^>\s]+)>; rel="(?P<rel>[[:word:]]+))+           *)
(* matched leftmost-first as the regex crate does.  Every repetition and   *)
(* the optional "s" are greedy, and none of them can give a character back *)
(* to what follows it ("s" is no ":", a character of [^>\s] is no ">", a   *)
(* word character is no "<"), so the match at a position is unique.        *)

IsUrlChar(c) == c # ">" /\ c \notin Space

IsWordChar(c) == c \in WordChars

\* [^>\s]+ from position i: the first position past the run
RECURSIVE UrlRunEnd(_, _)
UrlRunEnd(s, i) ==
    IF i <= Len(s) /\ IsUrlChar(s[i]) THEN UrlRunEnd(s, i + 1) ELSE i

\* [[:word:]]+ from position i: the first position past the run
RECURSIVE WordRunEnd(_, _)
WordRunEnd(s, i) ==
    IF i <= Len(s) /\ IsWordChar(s[i]) THEN WordRunEnd(s, i + 1) ELSE i

\* One iteration of the outer group at position i:
\*   <(?P<url>http(s)?://[^>\s]+)>; rel="(?P<rel>[[:word:]]+)
MatchGroup(s, i) ==
    LET h == i + 1
        c == IF LitAt(s, h + 4, <<"s">>) THEN h + 5 ELSE h + 4
        u0 == c + 3
        u1 == UrlRunEnd(s, u0)
        w0 == u1 + 1 + Len(RelAttr)
        w1 == WordRunEnd(s, w0)
    IN  IF /\ LitAt(s, i, <<"<">>)
           /\ LitAt(s, h, Http)
           /\ LitAt(s, c, SchemeSep)
           /\ u1 > u0
           /\ LitAt(s, u1, <<">">>)
           /\ LitAt(s, u1 + 1, RelAttr)
           /\ w1 > w0
        THEN [ok |-> TRUE, end |-> w1,
              url |-> SubSeq(s, h, u1 - 1), rel |-> SubSeq(s, w0, w1 - 1)]
        ELSE [ok |-> FALSE, end |-> i, url |-> EmptyString, rel |-> EmptyString]

\* The group's "+": further iterations right where the last one ended; the
\* named groups keep the captures of the last iteration.
RECURSIVE RepeatGroup(_, _)
RepeatGroup(s, m) ==
    LET n == MatchGroup(s, m.end)
    IN  IF n.ok THEN RepeatGroup(s, n) ELSE m

\* Regex::captures_iter from position i: the successive non-overlapping
\* matches, each the leftmost one at or after the end of the one before.
RECURSIVE captures_iter(_, _)
captures_iter(s, i) ==
    IF i > Len(s) THEN << >>
    ELSE LET g == MatchGroup(s, i)
         IN  IF g.ok
             THEN LET m == RepeatGroup(s, g)
                  IN  <<m>> \o captures_iter(s, m.end)
             ELSE captures_iter(s, i + 1)

----------------------------------------------------------------------------
(* HashMap: a function on the set of its keys *)

HashMapNew == [k \in {} |-> 0]

HashMapInsert(m, k, v) ==
    [x \in DOMAIN m \cup {k} |-> IF x = k THEN v ELSE m[x]]

\* HashMap::get(k).cloned().unwrap_or(d)
HashMapGetOr(m, k, d) == IF k \in DOMAIN m THEN m[k] ELSE d

----------------------------------------------------------------------------
(* fn parse_links_header(raw_links: &str) -> HashMap<&str, &str> *)

\* LinksFoldStep with the arguments of insert swapped
LinksFoldStep_swapped(m, cap) == HashMapInsert(m, cap.url, cap.rel)

\* LinksFoldStep that keeps the entry a relation name already has
LinksFoldStep_keep_first(m, cap) ==
    IF cap.rel \in DOMAIN m THEN m ELSE HashMapInsert(m, cap.rel, cap.url)

\* the fold closure: both named groups take part in every match
LinksFoldStep(m, cap) == HashMapInsert(m, cap.rel, cap.url)

RECURSIVE LinksFold(_, _)
LinksFold(caps, m) ==
    IF caps = << >> THEN m
    ELSE LinksFold(Tail(caps), LinksFoldStep(m, Head(caps)))

parse_links_header(raw) == LinksFold(captures_iter(raw, 1), HashMapNew)

----------------------------------------------------------------------------
(* Header lines as a server writes them: link entries joined by ", "       *)

EntrySep == <<",", " ">>

ApiServer == <<"h", "t", "t", "p", "s", ":", "/", "/", "a", "p", "i", ".",
               "g", "i", "t", "h", "u", "b", ".", "c", "o", "m">>
NotificationsPath == <<"/", "n", "o", "t", "i", "f", "i", "c", "a", "t", "i",
                       "o", "n", "s">>
PageQuery == <<"?", "p", "a", "g", "e", "=">>
PageDigits == <<"1", "2", "3", "4", "5", "6", "7", "8", "9">>

\* <api_server>/notifications?page=<n>
PageUrl(n) == ApiServer \o NotificationsPath \o PageQuery \o <<PageDigits[n]>>

\* An entry is [url, rel]; an empty url or rel is left out of the text.
EntryText(e) ==
    (IF e.url = EmptyString THEN EmptyString ELSE <<"<">> \o e.url \o <<">">>)
    \o (IF e.rel = EmptyString THEN EmptyString ELSE RelAttr \o e.rel \o <<"\"">>)

RECURSIVE JoinEntries(_)
JoinEntries(es) ==
    IF es = << >> THEN EmptyString
    ELSE IF Len(es) = 1 THEN EntryText(es[1])
    ELSE EntryText(es[1]) \o EntrySep \o JoinEntries(Tail(es))

\* Link: <URL>; rel="REL", <URL>; rel="REL", ...
HeaderText(es) == LinkName \o <<" ">> \o JoinEntries(es)

\* The header of tests::it_parses_links_header
TestEntries ==
    << [url |-> PageUrl(1), rel |-> RelPrev],
       [url |-> PageUrl(3), rel |-> RelNext],
       [url |-> PageUrl(4), rel |-> RelLast],
       [url |-> PageUrl(1), rel |-> RelFirst] >>

\* The mapping the test expects
TestExpected ==
    [r \in {RelFirst, RelPrev, RelNext, RelLast} |->
        IF r = RelNext THEN PageUrl(3)
        ELSE IF r = RelLast THEN PageUrl(4)
        ELSE PageUrl(1)]

----------------------------------------------------------------------------
(* Bounds of the model *)

\* records in one page of the server
MaxRecords == 2

\* pages the server serves in one walk
MaxRequests == 2

\* link entries in one header handed to parse_links_header on its own
MaxEntries == 3

SeqsUpTo(S, n) == UNION {[1..k -> S] : k \in 0..n}

----------------------------------------------------------------------------
(* The upstream server: what http::http_get_json can return for a URL *)

\* reason codes the server sends: a known one, and one the block does not
\* know, which is also the string the fold uses as its own key
Reasons == {"mention", "total"}

ContentTypeHeader == <<"C", "o", "n", "t", "e", "n", "t", "-", "T", "y", "p",
                       "e", ":", " ", "j", "s", "o", "n">>

\* format!("{}/notifications", api_server)
FirstPageUrl == ApiServer \o NotificationsPath

\* the page number a URL of the server stands for
PageNo(url) ==
    IF url = FirstPageUrl THEN 1
    ELSE CHOOSE n \in 1..Len(PageDigits) : url = PageUrl(n)

\* What the server can say about the page after url: the header lines of
\* its response and the "next" URL they name.  No Link header, a Link header
\* without "next" (the last page), one whose "next" is the following page,
\* one whose "next" is the requested page again.
ServerLinks(url) ==
    { [headers |-> <<ContentTypeHeader>>, next |-> EmptyString],
      [headers |-> <<ContentTypeHeader,
                     HeaderText(<<[url |-> PageUrl(1), rel |-> RelPrev],
                                  [url |-> PageUrl(1), rel |-> RelFirst]>>)>>,
       next |-> EmptyString],
      [headers |-> <<ContentTypeHeader,
                     HeaderText(<<[url |-> PageUrl(PageNo(url)), rel |-> RelPrev],
                                  [url |-> PageUrl(PageNo(url) + 1), rel |-> RelNext]>>)>>,
       next |-> PageUrl(PageNo(url) + 1)],
      [headers |-> <<HeaderText(<<[url |-> url, rel |-> RelNext]>>),
                     ContentTypeHeader>>,
       next |-> url] }

\* The header lines of a response to GET url
ServerHeaders(url) == {o.headers : o \in ServerLinks(url)}

\* the "next" URL the server named with these header lines
ServerNext(url, headers) ==
    (CHOOSE o \in ServerLinks(url) : o.headers = headers).next

\* The body: a JSON array of {reason} objects, or JSON of another shape
ServerContents ==
    {[array |-> FALSE, items |-> << >>]}
    \cup {[array |-> TRUE, items |-> b] : b \in SeqsUpTo(Reasons, MaxRecords)}

\* Err(transport error) or Ok(HttpResponse {headers, content})
Responses(url) ==
    {[ok |-> FALSE, headers |-> << >>, content |-> [array |-> FALSE, items |-> << >>]]}
    \cup {[ok |-> TRUE, headers |-> h, content |-> c] :
            h \in ServerHeaders(url), c \in ServerContents}

\* The server ends a walk: to a client that has made n requests it answers
\* anything while fewer than MaxRequests - 1 were made, and after that with
\* a failure or with a response that names no next page.
LastResponses(url) ==
    {[ok |-> FALSE, headers |-> << >>, content |-> [array |-> FALSE, items |-> << >>]]}
    \cup {[ok |-> TRUE, headers |-> o.headers, content |-> c] :
            o \in {l \in ServerLinks(url) : l.next = EmptyString},
            c \in ServerContents}

WalkResponses(url, n) ==
    IF n + 1 < MaxRequests THEN Responses(url) ELSE LastResponses(url)

\* The same for a client that may call again after a failure: the last
\* answer is a response that names no next page.
LastAnswers(url) == {r \in LastResponses(url) : r.ok}

IteratorResponses(url, n) ==
    IF n + 1 < MaxRequests THEN Responses(url) ELSE LastAnswers(url)

\* the argument of a call that issues no request
NoResponse == [ok |-> FALSE, headers |-> << >>, content |-> [array |-> FALSE, items |-> << >>]]

----------------------------------------------------------------------------
(* struct Notifications and its Iterator *)

\* Notifications::new that takes over the iterator of the cycle before
Notifications_new_resume ==
    [notifications |-> notifications, next_page_url |-> next_page_url]

\* Notifications::new
Notifications_new ==
    [notifications |-> << >>, next_page_url |-> FirstPageUrl]

\* result.headers.iter().find_map(|header| if header.starts_with("Link:")
\*   { parse_links_header(header).get("next").cloned() } else { None })
\*   .unwrap_or(&"")
RECURSIVE FindNextLink(_)
FindNextLink(headers) ==
    IF headers = << >> THEN EmptyString
    ELSE LET header == Head(headers)
             m == parse_links_header(header)
         IN  IF starts_with(header, LinkName) /\ RelNext \in DOMAIN m
             THEN m[RelNext]
             ELSE FindNextLink(Tail(headers))

\* whether try_next gets as far as http_get_json
IssuesRequest(self) ==
    self.notifications = << >> /\ self.next_page_url # EmptyString

\* Result<Option<Notification>, Error> of try_next
OkSome(reason) == [tag |-> "OkSome", reason |-> reason, error |-> ""]
OkNone == [tag |-> "OkNone", reason |-> "", error |-> ""]
ErrOf(kind) == [tag |-> "Err", reason |-> "", error |-> kind]

\* Option<Result<Notification, Error>> of Iterator::next
SomeOk(reason) == [tag |-> "SomeOk", reason |-> reason, error |-> ""]
None == [tag |-> "None", reason |-> "", error |-> ""]
SomeErr(kind) == [tag |-> "SomeErr", reason |-> "", error |-> kind]
NotCalled == [tag |-> "NotCalled", reason |-> "", error |-> ""]

\* try_next that drops the cursor when it hands out a buffered record
try_next_pop_drops_cursor(self, resp) ==
    IF self.notifications # << >>
    THEN [self |-> [notifications |-> Tail(self.notifications),
                    next_page_url |-> EmptyString],
          ret |-> OkSome(Head(self.notifications)), req |-> FALSE]
    ELSE IF self.next_page_url = EmptyString
    THEN [self |-> self, ret |-> OkNone, req |-> FALSE]
    ELSE IF ~resp.ok
    THEN [self |-> self, ret |-> ErrOf("transport"), req |-> TRUE]
    ELSE LET url == FindNextLink(resp.headers)
         IN  IF ~resp.content.array
             THEN [self |-> [self EXCEPT !.next_page_url = url],
                   ret |-> ErrOf("decode"), req |-> TRUE]
             ELSE IF resp.content.items = << >>
             THEN [self |-> [notifications |-> << >>, next_page_url |-> url],
                   ret |-> OkNone, req |-> TRUE]
             ELSE [self |-> [notifications |-> Tail(resp.content.items),
                             next_page_url |-> url],
                   ret |-> OkSome(Head(resp.content.items)), req |-> TRUE]

\* try_next that keeps its cursor when the response names no next page
try_next_keeps_cursor(self, resp) ==
    IF self.notifications # << >>
    THEN [self |-> [self EXCEPT !.notifications = Tail(@)],
          ret |-> OkSome(Head(self.notifications)), req |-> FALSE]
    ELSE IF self.next_page_url = EmptyString
    THEN [self |-> self, ret |-> OkNone, req |-> FALSE]
    ELSE IF ~resp.ok
    THEN [self |-> self, ret |-> ErrOf("transport"), req |-> TRUE]
    ELSE LET found == FindNextLink(resp.headers)
             url == IF found = EmptyString THEN self.next_page_url ELSE found
         IN  IF ~resp.content.array
             THEN [self |-> [self EXCEPT !.next_page_url = url],
                   ret |-> ErrOf("decode"), req |-> TRUE]
             ELSE IF resp.content.items = << >>
             THEN [self |-> [notifications |-> << >>, next_page_url |-> url],
                   ret |-> OkNone, req |-> TRUE]
             ELSE [self |-> [notifications |-> Tail(resp.content.items),
                             next_page_url |-> url],
                   ret |-> OkSome(Head(resp.content.items)), req |-> TRUE]

\* try_next with a loop guard: a "next" link to the page just requested is
\* taken for the end of the chain
try_next_loop_guard(self, resp) ==
    IF self.notifications # << >>
    THEN [self |-> [self EXCEPT !.notifications = Tail(@)],
          ret |-> OkSome(Head(self.notifications)), req |-> FALSE]
    ELSE IF self.next_page_url = EmptyString
    THEN [self |-> self, ret |-> OkNone, req |-> FALSE]
    ELSE IF ~resp.ok
    THEN [self |-> self, ret |-> ErrOf("transport"), req |-> TRUE]
    ELSE LET found == FindNextLink(resp.headers)
             url == IF found = self.next_page_url THEN EmptyString ELSE found
         IN  IF ~resp.content.array
             THEN [self |-> [self EXCEPT !.next_page_url = url],
                   ret |-> ErrOf("decode"), req |-> TRUE]
             ELSE IF resp.content.items = << >>
             THEN [self |-> [notifications |-> << >>, next_page_url |-> url],
                   ret |-> OkNone, req |-> TRUE]
             ELSE [self |-> [notifications |-> Tail(resp.content.items),
                             next_page_url |-> url],
                   ret |-> OkSome(Head(resp.content.items)), req |-> TRUE]

\* Notifications::try_next: the iterator after the call, what it returns, and
\* whether it called http_get_json.  resp is the outcome of that one call,
\* read only when the call is made.
try_next(self, resp) ==
    IF self.notifications # << >>
    THEN [self |-> [self EXCEPT !.notifications = Tail(@)],
          ret |-> OkSome(Head(self.notifications)), req |-> FALSE]
    ELSE IF self.next_page_url = EmptyString
    THEN [self |-> self, ret |-> OkNone, req |-> FALSE]
    ELSE IF ~resp.ok
    THEN [self |-> self, ret |-> ErrOf("transport"), req |-> TRUE]
    ELSE LET url == FindNextLink(resp.headers)
         IN  IF ~resp.content.array
             THEN [self |-> [self EXCEPT !.next_page_url = url],
                   ret |-> ErrOf("decode"), req |-> TRUE]
             ELSE IF resp.content.items = << >>
             THEN [self |-> [notifications |-> << >>, next_page_url |-> url],
                   ret |-> OkNone, req |-> TRUE]
             ELSE [self |-> [notifications |-> Tail(resp.content.items),
                             next_page_url |-> url],
                   ret |-> OkSome(Head(resp.content.items)), req |-> TRUE]

\* Iterator::next
Iterator_next(self, resp) ==
    LET r == try_next(self, resp)
    IN  [self |-> r.self,
         ret |-> IF r.ret.tag = "OkSome" THEN SomeOk(r.ret.reason)
                 ELSE IF r.ret.tag = "OkNone" THEN None
                 ELSE SomeErr(r.ret.error),
         req |-> r.req]

----------------------------------------------------------------------------
(* impl Block for Github *)

\* GithubConfig::default().interval, in seconds
update_interval == 30

\* the reason codes update() hands to the renderer
KnownReasons == {"assign", "author", "comment", "invitation", "manual",
                 "mention", "review_requested", "security_alert",
                 "state_change", "subscribed", "team_mention"}

\* a seed without the "total" key
FoldSeed_empty == HashMapNew

\* map!("total".to_owned() => 0)
FoldSeed == [k \in {"total"} |-> 0]

\* The try_fold closure on a record:
\*   acc.entry(n.reason).and_modify(|v| *v += 1).or_insert(1);
\*   acc.entry("total".to_owned()).and_modify(|v| *v += 1);
FoldClosure(m, reason) ==
    LET m1 == IF reason \in DOMAIN m
              THEN [m EXCEPT ![reason] = @ + 1]
              ELSE HashMapInsert(m, reason, 1)
    IN  IF "total" \in DOMAIN m1 THEN [m1 EXCEPT !["total"] = @ + 1] ELSE m1

\* try_fold_step that takes a failed element for the end of the sequence
try_fold_step_swallow_err(m, it) ==
    IF it.tag = "None" \/ it.tag = "SomeErr" THEN [state |-> "Ok", acc |-> m]
    ELSE [state |-> "Continue", acc |-> FoldClosure(m, it.reason)]

\* try_fold_step that skips a failed element and goes on
try_fold_step_skip_err(m, it) ==
    IF it.tag = "None" THEN [state |-> "Ok", acc |-> m]
    ELSE IF it.tag = "SomeErr" THEN [state |-> "Continue", acc |-> m]
    ELSE [state |-> "Continue", acc |-> FoldClosure(m, it.reason)]

\* One round of try_fold on what next() returned: go on with the new
\* accumulator, stop with Ok(acc) when the iterator ends, or stop with the
\* error of a failed element (the accumulator is dropped).
try_fold_step(m, it) ==
    IF it.tag = "None" THEN [state |-> "Ok", acc |-> m]
    ELSE IF it.tag = "SomeErr" THEN [state |-> "Err", acc |-> HashMapNew]
    ELSE [state |-> "Continue", acc |-> FoldClosure(m, it.reason)]

\* Result<Option<Update>> of update()
OkDelay(d) == [tag |-> "Ok", delay |-> d]
ErrReturned == [tag |-> "Err", delay |-> 0]
Pending == [tag |-> "Pending", delay |-> 0]

\* FormatTemplate::render on a template of one placeholder {format}: the
\* placeholder's value as text, or an error when the mapping has no such key
render(fmt, vals) ==
    IF fmt \in DOMAIN vals
    THEN [ok |-> TRUE, text |-> ToString(vals[fmt])]
    ELSE [ok |-> FALSE, text |-> ""]

\* RenderValues without the reason codes that occurred in no record
RenderValues_only_observed(total, aggregations) ==
    [k \in {"total"} \cup (KnownReasons \cap DOMAIN aggregations) |->
        IF k = "total" THEN total ELSE aggregations[k]]

\* the map!(...) of update(): "total" and the known reason codes
RenderValues(total, aggregations) ==
    [k \in {"total"} \cup KnownReasons |->
        IF k = "total" THEN total ELSE HashMapGetOr(aggregations, k, 0)]

\* update_err that also resets the cached total
update_err_reset_total(self) ==
    [self |-> [self EXCEPT !.text = "x", !.total_notifications = 0],
     values |-> HashMapNew,
     ret |-> OkDelay(self.update_interval)]

\* update(), the arm Err(_) of the match on try_fold's result
update_err(self) ==
    [self |-> [self EXCEPT !.text = "x"],
     values |-> HashMapNew,
     ret |-> OkDelay(self.update_interval)]

\* update(), from the arm Ok(v) of the match to the end
update_ok(self, aggregations) ==
    LET total == HashMapGetOr(aggregations, "total", 0)
        self1 == [self EXCEPT !.total_notifications = total]
        vals == RenderValues(total, aggregations)
        out == render(self.format, vals)
    IN  IF out.ok
        THEN [self |-> [self1 EXCEPT !.text = out.text],
              values |-> vals,
              ret |-> OkDelay(self.update_interval)]
        ELSE [self |-> self1, values |-> vals, ret |-> ErrReturned]

\* view(): the widgets shown
view(self) ==
    IF self.hide_if_total_is_zero /\ self.total_notifications = 0
    THEN << >>
    ELSE <<self.text>>

----------------------------------------------------------------------------
(* The block under its scheduler: update() called again and again, each    *)
(* call against whatever the server answers.  A call of update() is cut at *)
(* each call of next(), whose HTTP response is an input.                   *)

\* the templates a configuration can hold: the default {total}, and a
\* placeholder update() supplies no value for
Formats == {"total", "bogus"}

ZeroCount == [r \in Reasons |-> 0]

AddItems(cnt, items) ==
    [r \in Reasons |-> cnt[r] + Cardinality({i \in DOMAIN items : items[i] = r})]

Self ==
    [text |-> text,
     total_notifications |-> total_notifications,
     hide_if_total_is_zero |-> hide_if_total_is_zero,
     format |-> format,
     update_interval |-> update_interval]

Iter == [notifications |-> notifications, next_page_url |-> next_page_url]

SetSelf(self) ==
    /\ text' = self.text
    /\ total_notifications' = self.total_notifications
    /\ UNCHANGED <<hide_if_total_is_zero, format>>

\* Github::new
InitGithub(hide, fmt) ==
    /\ text = "x"
    /\ total_notifications = 0
    /\ hide_if_total_is_zero = hide
    /\ format = fmt

InitRest ==
    /\ pc = "idle"
    /\ acc = HashMapNew
    /\ values = HashMapNew
    /\ ret = Pending
    /\ notifications = << >>
    /\ next_page_url = EmptyString
    /\ item = NotCalled
    /\ requests = << >>
    /\ served = ZeroCount
    /\ folded = ZeroCount
    /\ total_before = 0
    /\ chain = << >>
    /\ entries = << >>
    /\ raw_links = EmptyString
    /\ links = HashMapNew

Init ==
    /\ \E hide \in BOOLEAN, fmt \in Formats : InitGithub(hide, fmt)
    /\ InitRest

\* update() up to the first call of next(): Notifications::new and the seed
UpdateBegin ==
    /\ pc = "idle"
    /\ pc' = "folding"
    /\ notifications' = Notifications_new.notifications
    /\ next_page_url' = Notifications_new.next_page_url
    /\ item' = NotCalled
    /\ acc' = FoldSeed
    /\ values' = HashMapNew
    /\ ret' = Pending
    /\ requests' = << >>
    /\ served' = ZeroCount
    /\ folded' = ZeroCount
    /\ total_before' = total_notifications
    /\ chain' = << >>
    /\ UNCHANGED <<githubVars, parseVars>>

\* what a call of next() does to the iterator and to the history of the walk
NextCall(r, resp) ==
    LET req == r.req
    IN  /\ notifications' = r.self.notifications
        /\ next_page_url' = r.self.next_page_url
        /\ item' = r.ret
        /\ requests' = IF req THEN Append(requests, next_page_url) ELSE requests
        /\ served' = IF req /\ resp.ok /\ resp.content.array
                     THEN AddItems(served, resp.content.items)
                     ELSE served
        /\ chain' = IF req /\ resp.ok
                    THEN Append(chain, ServerNext(next_page_url, resp.headers))
                    ELSE chain

\* One round of try_fold, and with its last round the rest of update()
UpdateStep(resp) ==
    \E r \in {Iterator_next(Iter, resp)} :
    LET f == try_fold_step(acc, r.ret)
    IN  /\ NextCall(r, resp)
        /\ folded' = IF r.ret.tag = "SomeOk"
                     THEN [folded EXCEPT ![r.ret.reason] = @ + 1]
                     ELSE folded
        /\ IF f.state = "Continue"
           THEN /\ acc' = f.acc
                /\ UNCHANGED <<pc, values, ret, githubVars>>
           ELSE LET u == IF f.state = "Err" THEN update_err(Self)
                         ELSE update_ok(Self, f.acc)
                IN  /\ SetSelf(u.self)
                    /\ values' = u.values
                    /\ ret' = u.ret
                    /\ pc' = IF u.ret.tag = "Ok" THEN "idle" ELSE "error"
                    /\ acc' = acc
        /\ UNCHANGED <<total_before, parseVars>>

\* a round whose call of next() issues no request
UpdateNextLocal ==
    /\ pc = "folding"
    /\ ~IssuesRequest(Iter)
    /\ UpdateStep(NoResponse)

\* a round whose call of next() issues a request
UpdateNextFetch ==
    /\ pc = "folding"
    /\ IssuesRequest(Iter)
    /\ \E resp \in WalkResponses(next_page_url, Len(requests)) : UpdateStep(resp)

Next == UpdateBegin \/ UpdateNextLocal \/ UpdateNextFetch

Spec == Init /\ [][Next]_vars

----------------------------------------------------------------------------
(* The Notifications iterator under any caller: next() called again and    *)
(* again on one iterator, also after it has returned None or an error.     *)

DefaultConfig == InitGithub(FALSE, "total")

FetcherInit ==
    /\ DefaultConfig
    /\ pc = "idle"
    /\ acc = HashMapNew
    /\ values = HashMapNew
    /\ ret = Pending
    /\ notifications = Notifications_new.notifications
    /\ next_page_url = Notifications_new.next_page_url
    /\ item = NotCalled
    /\ requests = << >>
    /\ served = ZeroCount
    /\ folded = ZeroCount
    /\ total_before = 0
    /\ chain = << >>
    /\ entries = << >>
    /\ raw_links = EmptyString
    /\ links = HashMapNew

IterStep(resp) ==
    \E r \in {Iterator_next(Iter, resp)} :
        /\ NextCall(r, resp)
        /\ UNCHANGED <<githubVars, updateVars, folded, total_before, parseVars>>

\* a call of next() that issues no request
IterNextLocal ==
    /\ ~IssuesRequest(Iter)
    /\ IterStep(NoResponse)

\* a call of next() that issues a request
IterNextFetch ==
    /\ IssuesRequest(Iter)
    /\ \E resp \in IteratorResponses(next_page_url, Len(requests)) : IterStep(resp)

FetcherNext == IterNextLocal \/ IterNextFetch

FetcherSpec == FetcherInit /\ [][FetcherNext]_vars

----------------------------------------------------------------------------
(* The block against a server whose chain of pages is finite: a page names *)
(* a "next" page only up to the last page of the chain, and never itself.  *)
(* The number of requests of a walk is not capped here.  A call of next()  *)
(* that is due is made and returns: update() runs to its end without       *)
(* waiting for anything but http_get_json, which has a timeout.            *)

\* pages in the server's chain
ChainLength == MaxRequests

FiniteServerLinks(url) ==
    {o \in ServerLinks(url) :
        o.next = EmptyString \/ (o.next # url /\ PageNo(url) < ChainLength)}

FiniteResponses(url) ==
    {[ok |-> FALSE, headers |-> << >>, content |-> [array |-> FALSE, items |-> << >>]]}
    \cup {[ok |-> TRUE, headers |-> o.headers, content |-> c] :
            o \in FiniteServerLinks(url), c \in ServerContents}

\* a round whose call of next() issues a request
UpdateNextFetchFinite ==
    /\ pc = "folding"
    /\ IssuesRequest(Iter)
    /\ \E resp \in FiniteResponses(next_page_url) : UpdateStep(resp)

FiniteNext == UpdateBegin \/ UpdateNextLocal \/ UpdateNextFetchFinite

FiniteChainSpec ==
    /\ Init
    /\ [][FiniteNext]_vars
    /\ WF_vars(UpdateNextLocal)
    /\ WF_vars(UpdateNextFetchFinite)

----------------------------------------------------------------------------
(* The block against a server whose every response carries a "next" link:  *)
(* each answer is a non-empty page of records that names a next page, the  *)
(* following page or the requested page again.  The actions are those of   *)
(* Spec; only the server differs.  Every round adds to the tally and to    *)
(* the log of requests, so the walk is followed for MaxLoopRequests        *)
(* requests; the request after those is left outstanding.                  *)

\* requests of one walk that are followed
MaxLoopRequests == MaxRequests + 1

LoopServerLinks(url) == {o \in ServerLinks(url) : o.next # EmptyString}

LoopContents == {c \in ServerContents : c.array /\ c.items # << >>}

LoopResponses(url, n) ==
    IF n < MaxLoopRequests
    THEN {[ok |-> TRUE, headers |-> o.headers, content |-> c] :
            o \in LoopServerLinks(url), c \in LoopContents}
    ELSE {}

\* a round whose call of next() issues a request
UpdateNextFetchLoop ==
    /\ pc = "folding"
    /\ IssuesRequest(Iter)
    /\ \E resp \in LoopResponses(next_page_url, Len(requests)) : UpdateStep(resp)

LoopNext == UpdateBegin \/ UpdateNextLocal \/ UpdateNextFetchLoop

\* a request is due and is among those followed
LoopFetchDue ==
    pc = "folding" /\ IssuesRequest(Iter) /\ Len(requests) < MaxLoopRequests

\* The step UpdateNextFetchLoop, told first by the response the history
\* records and then by the round itself
LoopFetchAnswered ==
    /\ pc = "folding"
    /\ IssuesRequest(Iter)
    /\ \E resp \in LoopResponses(next_page_url, Len(requests)) :
        /\ served' = AddItems(served, resp.content.items)
        /\ chain' = Append(chain, ServerNext(next_page_url, resp.headers))
        /\ UpdateStep(resp)

\* A call of next() that is due is made and returns: weak fairness of the
\* two kinds of round, for the round with a request written out with its
\* enabling condition LoopFetchDue.
LoopSpec ==
    /\ Init
    /\ [][LoopNext]_vars
    /\ WF_vars(UpdateNextLocal)
    /\ ([]<>(~LoopFetchDue) \/ []<><<LoopFetchAnswered>>_vars)

----------------------------------------------------------------------------
(* parse_links_header on its own, on headers written from link entries *)

UrlA == <<"h", "t", "t", "p", ":", "/", "/", "h", "/", "1">>
UrlB == <<"h", "t", "t", "p", "s", ":", "/", "/", "h", "/", "2">>
\* a URL with whitespace in it
UrlWs == <<"h", "t", "t", "p", ":", "/", "/", "h", "/", "1", " ", "x">>
\* a URL with a no-break space (U+00A0) in it
UrlNbsp == <<"h", "t", "t", "p", "s", ":", "/", "/", "h", "/", "2", " ", "y">>
\* a URL with whitespace in it, and after the whitespace "<" and a URL
UrlWsLink == <<"h", "t", "t", "p", ":", "/", "/", "h", "/", "1", " ", "<",
               "h", "t", "t", "p", "s", ":", "/", "/", "h", "/", "2">>

WellFormedEntries ==
    {[url |-> u, rel |-> r] : u \in {UrlA, UrlB}, r \in {RelNext, RelPrev, RelLast}}

MalformedEntries ==
    { [url |-> UrlA, rel |-> EmptyString],      \* no rel attribute
      [url |-> EmptyString, rel |-> RelNext],   \* no URL
      [url |-> UrlWs, rel |-> RelLast],         \* whitespace in the URL
      [url |-> UrlNbsp, rel |-> RelNext],
      [url |-> UrlWsLink, rel |-> RelPrev] }

SampleEntries == WellFormedEntries \cup MalformedEntries

\* the header is the input: one of up to MaxEntries sample entries, or the
\* header of tests::it_parses_links_header
ParseInit ==
    /\ DefaultConfig
    /\ pc = "idle"
    /\ acc = HashMapNew
    /\ values = HashMapNew
    /\ ret = Pending
    /\ notifications = << >>
    /\ next_page_url = EmptyString
    /\ item = NotCalled
    /\ requests = << >>
    /\ served = ZeroCount
    /\ folded = ZeroCount
    /\ total_before = 0
    /\ chain = << >>
    /\ entries \in SeqsUpTo(SampleEntries, MaxEntries) \cup {TestEntries}
    /\ raw_links = HeaderText(entries)
    /\ links = HashMapNew

\* the call parse_links_header(raw_links)
Parse ==
    /\ pc = "idle"
    /\ pc' = "parsed"
    /\ links' = parse_links_header(raw_links)
    /\ UNCHANGED <<githubVars, acc, values, ret, iterVars, walkVars, entries, raw_links>>

ParseNext == Parse

ParseSpec == ParseInit /\ [][ParseNext]_vars


----------------------------------------------------------------------------
(* Claims about the update cycle, under Spec, and about the iterator,      *)
(* under FetcherSpec                                                       *)

SumCounts(cnt) == cnt["mention"] + cnt["total"]

\* try_fold has returned Ok(acc): next() returned None
FoldCompleted == pc # "folding" /\ item.tag = "None"

\* try_fold has returned Err: next() returned a failed element
FoldFailed == pc # "folding" /\ item.tag = "SomeErr"

\* format.render has returned Err on the tally of a completed fold
RenderFailed == FoldCompleted /\ ~render(format, values).ok

\* no URL was requested twice and the cursor does not point back into the walk
AcyclicWalk ==
    /\ \A i, j \in DOMAIN requests : i # j => requests[i] # requests[j]
    /\ \A i \in DOMAIN requests : requests[i] # next_page_url

\* C1: over a finite chain of pages with no failures, one cycle's aggregation
\* counts every record of every page exactly once and issues one request per
\* page: when the fold completes no page of the chain is left unrequested
\* (the cursor is empty), "total" is the number of records served and each
\* reason's count is the number of records served with that reason.
C1_EveryPageCounted ==
    (FoldCompleted /\ AcyclicWalk) =>
        /\ next_page_url = EmptyString
        /\ HashMapGetOr(acc, "total", 0) = SumCounts(served)
        /\ \A r \in Reasons \ {"total"} : HashMapGetOr(acc, r, 0) = served[r]

\* C2: once next() has returned None, every later call of next() on the
\* same iterator returns None and issues no request.
C2_ExhaustedStaysExhausted ==
    [][item.tag = "None" => (item'.tag = "None" /\ requests' = requests)]_vars

\* C3: when a page request fails, after any number of records were folded,
\* the cycle uses no part of the tally built so far: the text is "x", no
\* values are rendered and total_notifications is what it was.
C3_FailedFetchDiscardsTally ==
    FoldFailed =>
        /\ text = "x"
        /\ values = HashMapNew
        /\ total_notifications = total_before

\* C3 witness: the request for the second page failed in transport after two
\* records of the first page were folded, and the tally built so far differs
\* from the cached total
C3_Witness ==
    /\ FoldFailed
    /\ item.error = "transport"
    /\ Len(requests) = 2
    /\ SumCounts(folded) = 2
    /\ acc["total"] # total_notifications

\* C4: a cycle that fails in fetching or aggregation leaves
\* total_notifications at the value it had before the cycle, after any
\* sequence of successful and failed cycles.
C4_FailedCycleKeepsTotal ==
    [][(pc = "folding" /\ pc' # "folding" /\ item'.tag = "SomeErr")
        => (total_notifications' = total_notifications
            /\ total_notifications' = total_before)]_vars

\* C4 witness: a cycle failed on a decode error after an earlier cycle had
\* set a non-zero total, and the failed cycle had folded a record
C4_Witness ==
    /\ FoldFailed
    /\ item.error = "decode"
    /\ total_before > 0
    /\ total_notifications = total_before
    /\ SumCounts(folded) > 0

\* C5: an error of any kind in a cycle (transport, decode, render) never
\* makes update() return Err: the text becomes "x" and total_notifications
\* stays what it was before the cycle.
C5_NoErrorFailsUpdate ==
    (FoldFailed \/ RenderFailed) =>
        /\ ret.tag = "Ok"
        /\ text = "x"
        /\ total_notifications = total_before

\* C6: every cycle that ends, successful or failed by fetch, decode or
\* render, returns the delay update_interval.
C6_SameDelayAlways ==
    (FoldCompleted \/ FoldFailed) => ret = OkDelay(update_interval)

\* C7: whatever the reasons of the records folded, "total" in the tally is
\* the number of records folded and each reason that occurred has the number
\* of records folded with it.
C7_TallyCountsFolded ==
    "total" \in DOMAIN acc =>
        /\ acc["total"] = SumCounts(folded)
        /\ \A r \in Reasons : folded[r] > 0 => (r \in DOMAIN acc /\ acc[r] = folded[r])

----------------------------------------------------------------------------
(* Link entries as the specification describes them *)

\* begins with http:// or https://, goes on, and holds no whitespace or ">"
ValidUrl(u) ==
    /\ \/ starts_with(u, Http \o SchemeSep) /\ Len(u) > Len(Http \o SchemeSep)
       \/ starts_with(u, Http \o <<"s">> \o SchemeSep)
            /\ Len(u) > Len(Http \o <<"s">> \o SchemeSep)
    /\ \A i \in DOMAIN u : u[i] # ">" /\ u[i] \notin Space

\* a non-empty sequence of word characters
ValidRel(r) == r # EmptyString /\ \A i \in DOMAIN r : r[i] \in WordChars

WellFormed(e) == ValidUrl(e.url) /\ ValidRel(e.rel)

AllWellFormed(es) == \A i \in DOMAIN es : WellFormed(es[i])

DistinctRels(es) ==
    \A i, j \in DOMAIN es : i # j => es[i].rel # es[j].rel

\* a "<" inside the URL of the entry
HasInnerBracket(e) == \E i \in DOMAIN e.url : e.url[i] = "<"

\* the URL of the last entry of es with relation name r
LastUrl(es, r) ==
    LET last == CHOOSE i \in DOMAIN es :
                    /\ es[i].rel = r
                    /\ \A j \in DOMAIN es : es[j].rel = r => j <= i
    IN  es[last].url

\* relation name -> URL of its last entry
LastWins(es) == [r \in {es[i].rel : i \in DOMAIN es} |-> LastUrl(es, r)]

----------------------------------------------------------------------------
(* Claims about parse_links_header, under ParseSpec *)

\* C8: a header of well-formed entries with pairwise distinct relation names
\* parses to exactly one mapping entry per link entry, relation name -> URL,
\* whatever the order of the entries; the header of the test parses to the
\* four entries the test expects; a header without entries, or with none
\* that is well-formed or has "<" inside its URL, parses to the empty mapping.
C8_DistinctRelsParseExactly ==
    pc = "parsed" =>
        /\ (AllWellFormed(entries) /\ DistinctRels(entries)) =>
              /\ DOMAIN links = {entries[i].rel : i \in DOMAIN entries}
              /\ \A i \in DOMAIN entries : links[entries[i].rel] = entries[i].url
        /\ entries = TestEntries => links = TestExpected
        /\ (\A i \in DOMAIN entries :
                ~WellFormed(entries[i]) /\ ~HasInnerBracket(entries[i]))
              => links = HashMapNew

\* C8 witness: three well-formed entries with distinct relation names, not
\* in the order of the test, have been parsed into three mapping entries
C8_Witness ==
    /\ pc = "parsed"
    /\ Len(entries) = 3
    /\ AllWellFormed(entries)
    /\ DistinctRels(entries)
    /\ entries[1].rel = RelLast
    /\ entries[1].url # entries[2].url
    /\ Cardinality(DOMAIN links) = 3

\* the header with its malformed entries removed
Kept(es) == SelectSeq(es, WellFormed)

\* every entry is well-formed, or malformed without a "<" inside its URL
NoInnerBracket(es) ==
    \A i \in DOMAIN es : WellFormed(es[i]) \/ ~HasInnerBracket(es[i])

\* C9: when a relation name appears in several well-formed entries of one
\* header, the mapping holds the URL of its last well-formed entry from left
\* to right.
C9_LastOccurrenceWins ==
    (pc = "parsed" /\ NoInnerBracket(entries)) =>
        \A i, j \in DOMAIN entries :
            (/\ i < j
             /\ WellFormed(entries[i]) /\ WellFormed(entries[j])
             /\ entries[i].rel = entries[j].rel
             /\ \A k \in DOMAIN entries :
                    (WellFormed(entries[k]) /\ entries[k].rel = entries[j].rel)
                    => k <= j)
            => /\ entries[j].rel \in DOMAIN links
               /\ links[entries[j].rel] = entries[j].url

\* C9 witness: a header was parsed in which one relation name has two
\* well-formed entries with different URLs
C9_Witness ==
    /\ pc = "parsed"
    /\ AllWellFormed(entries)
    /\ \E i, j \in DOMAIN entries :
          /\ i < j
          /\ entries[i].rel = entries[j].rel
          /\ entries[i].url # entries[j].url
          /\ links[entries[j].rel] = entries[j].url

\* C10: a malformed entry (no rel attribute, no URL, whitespace in the URL)
\* at any position contributes nothing and changes nothing: the result is
\* that of the header with the malformed entries removed.
C10_MalformedEntriesDropped ==
    pc = "parsed" => links = parse_links_header(HeaderText(Kept(entries)))

\* The part of C10 the code satisfies: the same for headers whose malformed
\* entries have no "<" inside their URL; the result is then also the
\* last-wins mapping of the well-formed entries.
MalformedWithoutBracketDropped ==
    (pc = "parsed" /\ NoInnerBracket(entries))
    => /\ links = parse_links_header(HeaderText(Kept(entries)))
       /\ links = LastWins(Kept(entries))

\* a header with a malformed entry between two well-formed ones has been
\* parsed
MalformedBetweenParsed ==
    /\ pc = "parsed"
    /\ Len(entries) = 3
    /\ WellFormed(entries[1])
    /\ ~WellFormed(entries[2]) /\ ~HasInnerBracket(entries[2])
    /\ entries[2].url = UrlWs
    /\ WellFormed(entries[3])
    /\ Cardinality(DOMAIN links) = 2

----------------------------------------------------------------------------
(* Further claims about the update cycle, under Spec *)

\* C11: after every cycle whose fold completed, the mapping handed to the
\* renderer contains "total" and each of the eleven known reason codes; a
\* known code that occurred in no record has value 0, one that occurred has
\* its count from the tally, which is the number of records folded with it.
C11_KnownReasonsAlwaysPresent ==
    FoldCompleted =>
        /\ "total" \in DOMAIN values
        /\ {"assign", "author", "comment", "invitation", "manual", "mention",
            "review_requested", "security_alert", "state_change",
            "subscribed", "team_mention"} \subseteq DOMAIN values
        /\ values["total"] = acc["total"]
        /\ \A k \in KnownReasons :
              IF k \in Reasons /\ folded[k] > 0
              THEN values[k] = acc[k] /\ values[k] = folded[k]
              ELSE values[k] = 0

\* C11 witness: a cycle completed after folding two "mention" records and
\* no record of any other known reason
C11_Witness ==
    /\ FoldCompleted
    /\ folded["mention"] = 2
    /\ values["mention"] = 2
    /\ values["assign"] = 0
    /\ values["team_mention"] = 0

\* a response with an empty JSON array and no Link header
EmptyPageNoLink ==
    [ok |-> TRUE, headers |-> <<ContentTypeHeader>>,
     content |-> [array |-> TRUE, items |-> << >>]]

\* C12: when the first page is an empty array and the response has no Link
\* header, the fold completes on that response with the tally {"total": 0}
\* and nothing else, the cycle has issued exactly one request, the cached
\* total is 0, and with the default template the cycle returns its delay.
C12_EmptyFirstPage ==
    [][(pc = "folding" /\ requests = << >> /\ UpdateStep(EmptyPageNoLink))
        => /\ pc' # "folding"
           /\ item' = None
           /\ acc' = [k \in {"total"} |-> 0]
           /\ requests' = <<FirstPageUrl>>
           /\ next_page_url' = EmptyString
           /\ total_notifications' = 0
           /\ values'["total"] = 0
           /\ format = "total" => (ret' = OkDelay(update_interval) /\ text' = "0")]_vars

\* C12 witness: a cycle ended after one request that served no record and
\* left no next page, with the tally {"total": 0}
C12_Witness ==
    /\ FoldCompleted
    /\ requests = <<FirstPageUrl>>
    /\ served = ZeroCount
    /\ next_page_url = EmptyString
    /\ acc = [k \in {"total"} |-> 0]
    /\ text = "0"

----------------------------------------------------------------------------
\* the chain of pages as the server laid it out in this walk: the first page
\* and then every "next" URL it named
ServerChain == <<FirstPageUrl>> \o SelectSeq(chain, LAMBDA u : u # EmptyString)

\* every URL of the sequence differs from all URLs before it
NoRepeat(urls) == \A i, j \in DOMAIN urls : i < j => urls[i] # urls[j]

\* C16: when every "next" URL the server names differs from all URLs earlier
\* in the chain, no URL is requested twice within one cycle, whether the
\* cycle is still running, has completed or has failed.
C16_NoUrlRequestedTwice ==
    NoRepeat(ServerChain) => NoRepeat(requests)

\* C16 witness: a cycle failed on its second request, made to the "next" URL
\* of the first page, and the server's chain has no repeated URL
C16_Witness ==
    /\ FoldFailed
    /\ NoRepeat(ServerChain)
    /\ requests = <<FirstPageUrl, PageUrl(2)>>
    /\ chain = <<PageUrl(2)>>

----------------------------------------------------------------------------
\* the fold closure applied n times to records of one reason
RECURSIVE FoldTimes(_, _, _)
FoldTimes(m, reason, n) ==
    IF n = 0 THEN m ELSE FoldTimes(FoldClosure(m, reason), reason, n - 1)

\* the tally of a fold over cnt[r] records of each reason r, from the seed
CycleTally(cnt) ==
    FoldTimes(FoldTimes([k \in {"total"} |-> 0], "mention", cnt["mention"]),
              "total", cnt["total"])

\* C19: every cycle starts a fresh walk, however the cycle before it ended:
\* it begins with an empty buffer, the cursor on api_server/notifications
\* and the seed as tally, its first request goes to that URL, and the tally
\* of a completed fold is that of the records served in this cycle alone.
C19_EveryCycleStartsFresh ==
    /\ [][(pc # "folding" /\ pc' = "folding")
            => /\ notifications' = << >>
               /\ next_page_url' = ApiServer \o NotificationsPath
               /\ acc' = [k \in {"total"} |-> 0]
               /\ requests' = << >>]_vars
    /\ [](requests # << >> => requests[1] = ApiServer \o NotificationsPath)
    /\ [](FoldCompleted => acc = CycleTally(served))

\* C19 witness: after a cycle that set a non-zero total and a later cycle
\* that failed, a cycle has made its first request and holds a record of
\* that page in its buffer
C19_Witness ==
    /\ pc = "folding"
    /\ text = "x"
    /\ total_notifications > 0
    /\ requests = <<ApiServer \o NotificationsPath>>
    /\ notifications # << >>
    /\ acc = CycleTally(folded)

----------------------------------------------------------------------------
\* C20: after any failed cycle view() shows the text widget with the error
\* indicator "x", for every hide_if_total_is_zero and every earlier total,
\* also when the very first cycle fails.
C20_FailureAlwaysVisible ==
    FoldFailed => view(Self) = <<"x">>

----------------------------------------------------------------------------
(* Claims about termination *)

\* C17: over a finite chain of pages every cycle ends, with a completed
\* fold or at the first failed element, and has by then requested no page
\* twice and no more pages than the chain has.
C17_FiniteChainTerminates ==
    /\ [](Len(requests) <= ChainLength /\ NoRepeat(requests))
    /\ (pc = "folding") ~> (pc # "folding")

\* C17 witness: a fold completed after one request to every page of the
\* chain
C17_Witness ==
    /\ FoldCompleted
    /\ Len(requests) = ChainLength
    /\ NoRepeat(requests)
    /\ next_page_url = EmptyString
    /\ SumCounts(served) > 0

----------------------------------------------------------------------------
\* C18: there is no loop guard.  Against a server whose every response is
\* a non-empty page with a "next" link, a cycle that has begun never returns:
\* every round leaves it folding; next() never yields None or a failed
\* element, because whenever the buffer is empty the cursor names a URL to
\* request; after a page that named the requested URL itself the iterator is
\* back in the state Notifications::new built, so that the same request is
\* made again; and the cycle goes on to issue every further request that is
\* followed.
C18_CycleNeverReturns ==
    /\ [][pc = "folding" => pc' = "folding"]_vars
    /\ [](pc = "folding" =>
            /\ ret = Pending
            /\ item.tag \in {"NotCalled", "SomeOk"}
            /\ (notifications # << >> \/ next_page_url # EmptyString))
    /\ []((/\ pc = "folding"
           /\ notifications = << >>
           /\ \A i \in DOMAIN chain : chain[i] = FirstPageUrl)
            => Iter = Notifications_new)
    /\ (pc = "folding") ~> (pc = "folding" /\ Len(requests) = MaxLoopRequests)

\* C18 witness: the server has named the requested URL as "next" every time;
\* the cycle has requested that URL MaxLoopRequests times, has folded the
\* records of every page, and is still folding with its iterator in the
\* state it started from
C18_Witness ==
    /\ pc = "folding"
    /\ Len(requests) = MaxLoopRequests
    /\ \A i \in DOMAIN requests : requests[i] = FirstPageUrl
    /\ \A i \in DOMAIN chain : chain[i] = FirstPageUrl
    /\ Iter = Notifications_new
    /\ SumCounts(folded) >= MaxLoopRequests
    /\ folded = served

----------------------------------------------------------------------------
(* Further claims about the iterator, under FetcherSpec *)

\* C13: next() returns None only when the buffer is empty and the cursor is
\* the empty string; after a fetch that leaves the buffer empty and the
\* cursor on a "next" URL it does not return None.
C13_NoneOnlyWhenExhausted ==
    item.tag = "None" => (notifications = << >> /\ next_page_url = EmptyString)

\* C14: a call of next() that fails, by transport error or by a body that is
\* no array of records, returns one failed element and keeps no record of
\* the failed page, and the cursor has not moved past the failed page: a
\* request issued by the call after it goes to the failed page again, not to
\* a page that follows it.
C14_FailedFetchKeepsCursor ==
    [][/\ item'.tag = "SomeErr" => notifications' = << >>
       /\ (item.tag = "SomeErr" /\ requests' # requests)
            => requests'[Len(requests')] = requests[Len(requests)]]_vars


\* C15: a call of next() with a non-empty buffer returns the first buffered
\* record, issues no request and leaves the cursor unchanged; a page that is
\* fetched is handed out from its first record on; a request is issued only
\* by a call with an empty buffer and a non-empty cursor, and such a call
\* issues exactly one request, to the cursor's URL.
C15_BufferedCallsAreLocal ==
    [][/\ notifications # << >>
            => /\ item' = SomeOk(Head(notifications))
               /\ notifications' = Tail(notifications)
               /\ requests' = requests
               /\ next_page_url' = next_page_url
       /\ requests' # requests
            => (notifications = << >> /\ next_page_url # EmptyString)
       /\ (notifications = << >> /\ next_page_url # EmptyString)
            => /\ requests' = Append(requests, next_page_url)
               /\ \A resp \in Responses(next_page_url) :
                     (/\ IterStep(resp)
                      /\ resp.ok /\ resp.content.array
                      /\ resp.content.items # << >>)
                     => /\ item' = SomeOk(resp.content.items[1])
                        /\ notifications' = Tail(resp.content.items)]_vars

\* C15 witness: the second record of a page has been handed out from the
\* buffer while the cursor points to a next page, after one request
C15_Witness ==
    /\ item.tag = "SomeOk"
    /\ SumCounts(served) = 2
    /\ notifications = << >>
    /\ next_page_url = PageUrl(2)
    /\ requests = <<FirstPageUrl>>

====
